---- MODULE Spec2Model ----
(***************************************************************************)
(* Model of src/app.py: the amount parser (parse_investment_string), the   *)
(* maturity calculator (calculate_final_amount) and the Streamlit dialogue *)
(* driver (the script body, lines 126-216).                                *)
(*                                                                         *)
(* Texts are sequences of characters, one string each; the Hangul          *)
(* characters the code looks for are written "eok" (x 100,000,000), "man"  *)
(* (x 10,000) and "yeon" (per year), and the two product types "deposit"   *)
(* and "savings".  Python floats are IEEE                                  *)
(* binary64 values; they are modelled as a 53-bit mantissa and a binary    *)
(* exponent, every operation rounding to nearest, ties to even, as the     *)
(* hardware does.  Mantissas and exact integers do not fit TLC's 32-bit    *)
(* integers, so they are kept as little-endian sequences of limbs.         *)
(***************************************************************************)
EXTENDS Integers, Sequences, FiniteSets, TLC

(***************************************************************************)
(* Arbitrary-size naturals (Python int, and the mantissa of a float)       *)
(***************************************************************************)

\* One limb holds LimbBits bits.
LimbBits == 15

Base == 2 ^ LimbBits

RECURSIVE BNorm(_)
\* Drop the high zero limbs: the canonical form, zero being << >>.
BNorm(a) ==
    IF a = << >> THEN << >>
    ELSE IF a[Len(a)] = 0 THEN BNorm(SubSeq(a, 1, Len(a) - 1))
    ELSE a

RECURSIVE BFromNat(_)
BFromNat(n) ==
    IF n = 0 THEN << >> ELSE <<n % Base>> \o BFromNat(n \div Base)

\* Limb i of a, zero beyond its length.
Limb(a, i) == IF i <= Len(a) THEN a[i] ELSE 0

RECURSIVE BAddC(_, _, _, _)
BAddC(a, b, i, carry) ==
    IF i > Len(a) /\ i > Len(b)
    THEN (IF carry = 0 THEN << >> ELSE <<carry>>)
    ELSE LET s == Limb(a, i) + Limb(b, i) + carry
         IN  <<s % Base>> \o BAddC(a, b, i + 1, s \div Base)

BAdd(a, b) == BNorm(BAddC(a, b, 1, 0))

RECURSIVE BSubC(_, _, _, _)
BSubC(a, b, i, borrow) ==
    IF i > Len(a) THEN << >>
    ELSE LET s == Limb(a, i) - Limb(b, i) - borrow
         IN  IF s < 0
             THEN <<s + Base>> \o BSubC(a, b, i + 1, 1)
             ELSE <<s>> \o BSubC(a, b, i + 1, 0)

\* a - b, for a >= b.
BSub(a, b) == BNorm(BSubC(a, b, 1, 0))

RECURSIVE BCmpFrom(_, _, _)
BCmpFrom(a, b, i) ==
    IF i = 0 THEN 0
    ELSE IF a[i] < b[i] THEN -1
    ELSE IF a[i] > b[i] THEN 1
    ELSE BCmpFrom(a, b, i - 1)

\* -1, 0 or 1 as a < b, a = b, a > b (both canonical).
BCmp(a, b) ==
    IF Len(a) < Len(b) THEN -1
    ELSE IF Len(a) > Len(b) THEN 1
    ELSE BCmpFrom(a, b, Len(a))

RECURSIVE BMulSmallC(_, _, _, _)
BMulSmallC(a, c, i, carry) ==
    IF i > Len(a)
    THEN (IF carry = 0 THEN << >> ELSE <<carry>>)
    ELSE LET p == a[i] * c + carry
         IN  <<p % Base>> \o BMulSmallC(a, c, i + 1, p \div Base)

\* a * c, for 0 <= c < Base.
BMulSmall(a, c) == BNorm(BMulSmallC(a, c, 1, 0))

\* a * Base^k.
BShlLimbs(a, k) == IF a = << >> THEN << >> ELSE [i \in 1..k |-> 0] \o a

RECURSIVE BMulFrom(_, _, _)
BMulFrom(a, b, i) ==
    IF i > Len(b) THEN << >>
    ELSE BAdd(BShlLimbs(BMulSmall(a, b[i]), i - 1), BMulFrom(a, b, i + 1))

BMul(a, b) == BMulFrom(a, b, 1)

RECURSIVE BDivSmallC(_, _, _, _)
\* Long division from the high limb down; the result is <<remainder>> \o quotient
\* limbs, low limb first after the remainder.
BDivSmallC(a, d, i, rem) ==
    IF i = 0 THEN <<rem>>
    ELSE LET cur == rem * Base + a[i]
             rest == BDivSmallC(a, d, i - 1, cur % d)
         IN  rest \o <<cur \div d>>

\* Quotient and remainder of a by d, for 0 < d < Base.
BDivSmall(a, d) ==
    LET r == BDivSmallC(a, d, Len(a), 0)
    IN  [q |-> BNorm(SubSeq(r, 2, Len(r))), r |-> r[1]]

RECURSIVE NatBitLen(_)
NatBitLen(n) == IF n = 0 THEN 0 ELSE 1 + NatBitLen(n \div 2)

BBitLen(a) ==
    IF a = << >> THEN 0 ELSE (Len(a) - 1) * LimbBits + NatBitLen(a[Len(a)])

\* a * 2^k.
BShl(a, k) == BShlLimbs(BMulSmall(a, 2 ^ (k % LimbBits)), k \div LimbBits)

\* floor(a / 2^k).
BShr(a, k) ==
    LET dropped == IF k \div LimbBits >= Len(a) THEN << >>
                   ELSE SubSeq(a, (k \div LimbBits) + 1, Len(a))
    IN  BDivSmall(dropped, 2 ^ (k % LimbBits)).q

BIsOdd(a) == a # << >> /\ a[1] % 2 = 1

BOne == <<1>>

RECURSIVE BPow10(_)
BPow10(k) == IF k = 0 THEN BOne ELSE BMulSmall(BPow10(k - 1), 10)

(***************************************************************************)
(* Python float: IEEE binary64, non-negative and finite (the parser's      *)
(* regex admits no sign, and the bounded texts never reach the overflow    *)
(* threshold).  A float is [m, e] with value m * 2^e, m of exactly         *)
(* MantBits bits, or zero.                                                 *)
(***************************************************************************)

MantBits == 53

FZero == [m |-> << >>, e |-> 0]

Max(x, y) == IF x >= y THEN x ELSE y

Min(x, y) == IF x <= y THEN x ELSE y

\* F(v), with v evaluated once and then bound: TLC may evaluate an operator's
\* argument anew at each use, and the arithmetic below nests deeply.
Once(F(_), v) == CHOOSE r \in {F(x) : x \in {v}} : TRUE

\* Round, third step: m0 is the quotient cut to MantBits bits, low the bits cut
\* off, drop their number, r the division's remainder, e the exponent of q.
RoundUp(q, r, e, drop, m0) ==
    LET c  == BCmp(BSub(q, BShl(m0, drop)), BShl(BOne, drop - 1))
        up == c = 1 \/ (c = 0 /\ (r > 0 \/ BIsOdd(m0)))
    IN  IF ~up THEN [m |-> m0, e |-> e + drop]
        ELSE IF BBitLen(BAdd(m0, BOne)) > MantBits
        THEN [m |-> BShr(BAdd(m0, BOne), 1), e |-> e + drop + 1]
        ELSE [m |-> BAdd(m0, BOne), e |-> e + drop]

\* Round, second step: dv is the quotient and remainder, e the quotient's exponent.
RoundQuotient(dv, e) ==
    Once(LAMBDA m0 : RoundUp(dv.q, dv.r, e, BBitLen(dv.q) - MantBits, m0),
         BShr(dv.q, BBitLen(dv.q) - MantBits))

\* Round, first step: scale num so that the quotient has more than MantBits bits.
RoundScaled(num, den, e, s) ==
    Once(LAMBDA dv : RoundQuotient(dv, e - s), BDivSmall(BShl(num, s), den))

\* The float nearest to (num / den) * 2^e, ties to even; 0 < den < Base.
Round(num, den, e) ==
    Once(LAMBDA n : IF n = << >> THEN FZero
                    ELSE RoundScaled(n, den, e, Max(0, MantBits + 1 + LimbBits - BBitLen(n))),
         num)

\* float(n) for a Python int n.
FloatOfInt(n) == Round(n, 1, 0)

\* a * b.
FMulValues(a, b) == Round(BMul(a.m, b.m), 1, a.e + b.e)

FMul(a, b) == Once(LAMBDA x : Once(LAMBDA y : FMulValues(x, y), b), a)

\* a / d for a small positive integer d (d is exact as a float).
FDivInt(a, d) == Once(LAMBDA x : Round(x.m, d, x.e), a)

FAddValues(a, b) ==
    IF a.m = << >> THEN b
    ELSE IF b.m = << >> THEN a
    ELSE LET lo == Min(a.e, b.e)
         IN  Round(BAdd(BShl(a.m, a.e - lo), BShl(b.m, b.e - lo)), 1, lo)

\* a + b.
FAdd(a, b) == Once(LAMBDA x : Once(LAMBDA y : FAddValues(x, y), b), a)

FSubValues(a, b) ==
    IF b.m = << >> THEN a
    ELSE LET lo == Min(a.e, b.e)
         IN  Round(BSub(BShl(a.m, a.e - lo), BShl(b.m, b.e - lo)), 1, lo)

\* a - b, for a >= b.
FSub(a, b) == Once(LAMBDA x : Once(LAMBDA y : FSubValues(x, y), b), a)

\* int(a): truncation toward zero.
FTrunc(a) == Once(LAMBDA x : IF x.e >= 0 THEN BShl(x.m, x.e) ELSE BShr(x.m, -x.e), a)

\* The integer nearest to m * 2^e, ties to even: what format(x, ".0f") prints.
RoundHalfEvenAt(m, e, q) ==
    LET c == BCmp(BSub(m, BShl(q, -e)), BShl(BOne, -e - 1))
    IN  IF c = 1 \/ (c = 0 /\ BIsOdd(q)) THEN BAdd(q, BOne) ELSE q

RoundHalfEven(m, e) ==
    IF e >= 0 THEN BShl(m, e)
    ELSE Once(LAMBDA x : Once(LAMBDA q : RoundHalfEvenAt(x, e, q), BShr(x, -e)), m)

\* f"{a:,.0f}": the whole number shown.
Format0f(a) == Once(LAMBDA x : RoundHalfEven(x.m, x.e), a)

\* f"{a:.2f}": the number shown, in hundredths.
Format2f(a) == Once(LAMBDA x : RoundHalfEven(BMulSmall(x.m, 100), x.e), a)

(***************************************************************************)
(* Text: str methods and the two regular expressions                       *)
(***************************************************************************)

Digits == {"0", "1", "2", "3", "4", "5", "6", "7", "8", "9"}

DigitVal(c) ==
    CASE c = "0" -> 0 [] c = "1" -> 1 [] c = "2" -> 2 [] c = "3" -> 3
      [] c = "4" -> 4 [] c = "5" -> 5 [] c = "6" -> 6 [] c = "7" -> 7
      [] c = "8" -> 8 [] c = "9" -> 9

\* The character class [\d.] of both regular expressions.
NumChars == Digits \cup {"."}

\* The character class \s, as far as the texts of the model have it.
Whitespace == {" ", "\n"}

\* x in text, for a one-character x.
Contains(text, x) == \E i \in 1..Len(text) : text[i] = x

IsNotComma(c) == c # ","

\* text.replace(',', '')
RemoveCommas(text) == SelectSeq(text, IsNotComma)

MinOf(S) == CHOOSE x \in S : \A y \in S : x <= y

\* The first index from j on that is past the text or holds no character of cls.
SkipClass(text, j, cls) ==
    MinOf({k \in j..(Len(text) + 1) : k > Len(text) \/ text[k] \notin cls})

\* re.findall(r'[\d.]+', text): the first match, << >> when there is none
\* (a match is never empty).
FirstNumericToken(text) ==
    LET starts == {i \in 1..Len(text) : text[i] \in NumChars}
    IN  IF starts = {} THEN << >>
        ELSE SubSeq(text, MinOf(starts), SkipClass(text, MinOf(starts), NumChars) - 1)

\* text.strip()
Strip(text) ==
    LET keep == {i \in 1..Len(text) : text[i] \notin Whitespace}
    IN  IF keep = {} THEN << >>
        ELSE SubSeq(text, MinOf(keep), CHOOSE i \in keep : \A k \in keep : k <= i)

RECURSIVE SplitFrom(_, _, _)
SplitFrom(text, sep, i) ==
    LET cuts == {k \in i..Len(text) : text[k] = sep}
    IN  IF cuts = {} THEN <<SubSeq(text, i, Len(text))>>
        ELSE <<SubSeq(text, i, MinOf(cuts) - 1)>> \o SplitFrom(text, sep, MinOf(cuts) + 1)

\* text.split(sep), for a one-character sep.
Split(text, sep) == SplitFrom(text, sep, 1)

\* Whether float(tok) accepts tok, a run of digits and points: at most one point
\* and at least one digit.  Otherwise float raises ValueError.
IsFloatLiteral(tok) ==
    /\ Cardinality({i \in 1..Len(tok) : tok[i] = "."}) <= 1
    /\ \E i \in 1..Len(tok) : tok[i] \in Digits

RECURSIVE DigitsValue(_, _)
\* The integer the digits of tok spell, points skipped; acc holds the digits read.
DigitsValue(tok, acc) ==
    IF tok = << >> THEN acc
    ELSE IF Head(tok) = "." THEN DigitsValue(Tail(tok), acc)
    ELSE DigitsValue(Tail(tok), BAdd(BMulSmall(acc, 10), BFromNat(DigitVal(Head(tok)))))

\* The number of digits after the point of tok.
FractionDigits(tok) ==
    IF Contains(tok, ".")
    THEN Len(tok) - (CHOOSE i \in 1..Len(tok) : tok[i] = ".")
    ELSE 0

\* float(tok) for a literal float accepts: the float nearest to the decimal.
FloatOfStr(tok) == Round(DigitsValue(tok, << >>), 10 ^ FractionDigits(tok), 0)

(***************************************************************************)
(* parse_investment_string                                                 *)
(***************************************************************************)

HundredMillion == 100000000

TenThousand == 10000

\* The result of a call: exc is "none" and value the int returned, or exc names
\* the exception raised.
Returned(v) == [exc |-> "none", value |-> v]

Raised(x) == [exc |-> x, value |-> << >>]

TimesEok(text, amount) ==
    IF Contains(text, "eok") THEN FMul(amount, FloatOfInt(BFromNat(HundredMillion))) ELSE amount

TimesMan(text, amount) ==
    IF Contains(text, "man") THEN FMul(amount, FloatOfInt(BFromNat(TenThousand))) ELSE amount

parse_investment_string(text0) ==
    LET text == RemoveCommas(text0)
        tok  == FirstNumericToken(text)
    IN  IF tok = << >> THEN Raised("IndexError")
        ELSE IF ~IsFloatLiteral(tok) THEN Raised("ValueError")
        ELSE Returned(FTrunc(TimesMan(text, TimesEok(text, FloatOfStr(tok)))))

(***************************************************************************)
(* calculate_final_amount                                                  *)
(***************************************************************************)

\* '.' under re.DOTALL: every character.
DotMatchesAll(c) == TRUE

\* What '.' of the pattern matches: no flag is given to re.search, so every
\* character but the line break.
DotMatches(c) == c # "\n"

\* Whether literal occurs in text at index i (re.escape(product_name)).
OccursAt(text, literal, i) ==
    /\ i + Len(literal) - 1 <= Len(text)
    /\ \A k \in 1..Len(literal) : text[i + k - 1] = literal[k]

\* The part  yeon\s*([\d.]+)\s*%  of the pattern, tried at index j.  Each class is
\* consumed greedily; giving characters back never helps, as the classes that
\* follow one another share no character.
FigureAt(text, j) ==
    LET a == SkipClass(text, j + 1, Whitespace)
        b == SkipClass(text, a, NumChars)
        c == SkipClass(text, b, Whitespace)
    IN  /\ j <= Len(text)
        /\ text[j] = "yeon"
        /\ b > a
        /\ c <= Len(text)
        /\ text[c] = "%"

\* group(1) of a figure at index j.
FigureToken(text, j) ==
    LET a == SkipClass(text, j + 1, Whitespace)
    IN  SubSeq(text, a, SkipClass(text, a, NumChars) - 1)

\* The indices at which the figure can start once the name has matched at i:
\* .*? has consumed the characters in between, none of them a line break.
FigureStarts(text, name, i) ==
    {j \in (i + Len(name))..Len(text) :
        /\ FigureAt(text, j)
        /\ \A k \in (i + Len(name))..(j - 1) : DotMatches(text[k])}

\* re.search(f"{re.escape(name)}.*?yeon\s*([\d.]+)\s*%", text): the leftmost index
\* at which the pattern matches and, the quantifier being lazy, the nearest
\* figure from there.
Search(name, text) ==
    LET starts == {i \in 1..(Len(text) + 1) :
                      OccursAt(text, name, i) /\ FigureStarts(text, name, i) # {}}
    IN  IF starts = {} THEN [found |-> FALSE, start |-> 0, at |-> 0, group |-> << >>]
        ELSE LET i == MinOf(starts)
                 j == MinOf(FigureStarts(text, name, i))
             IN  [found |-> TRUE, start |-> i, at |-> j, group |-> FigureToken(text, j)]

\* tax_rate = 0.154, in thousandths.
TaxPerMille == 154

tax_rate == Round(BFromNat(TaxPerMille), 1000, 0)

Months == 12

\* 12 * (12 + 1) / 2: true division, the float 78.0.
SeriesSum == FDivInt(FloatOfInt(BFromNat(Months * (Months + 1))), 2)

AmountMessage == [kind |-> "amount_error"]

RateNotFoundMessage(product_name) == [kind |-> "rate_not_found", name |-> product_name]

\* Every payment earning interest for the twelve months.
SavingsInterestFullYear(monthly_payment, interest_rate) ==
    FMul(FloatOfInt(BMulSmall(monthly_payment, Months)), interest_rate)

DepositInterest(principal, interest_rate) == FMul(FloatOfInt(principal), interest_rate)

SavingsInterest(monthly_payment, interest_rate) ==
    FDivInt(FMul(FMul(FloatOfInt(monthly_payment), interest_rate), SeriesSum), Months)

Tax(interest) == FMul(interest, tax_rate)

\* The deposit branch: the figures of the text returned, as they are printed.
DepositResult(principal, interest_rate) ==
    LET interest     == DepositInterest(principal, interest_rate)
        tax          == Tax(interest)
        final_amount == FSub(FAdd(FloatOfInt(principal), interest), tax)
    IN  [kind      |-> "deposit",
         principal |-> Format0f(FloatOfInt(principal)),
         interest  |-> Format0f(interest),
         rate      |-> Format2f(FMul(interest_rate, FloatOfInt(BFromNat(100)))),
         tax       |-> Format0f(tax),
         final     |-> Format0f(final_amount)]

\* The savings branch.
SavingsResult(amount_str, principal, interest_rate) ==
    LET total_principal == BMulSmall(principal, Months)
        interest        == SavingsInterest(principal, interest_rate)
        tax             == Tax(interest)
        final_amount    == FSub(FAdd(FloatOfInt(total_principal), interest), tax)
    IN  [kind      |-> "savings",
         amount    |-> amount_str,
         total     |-> Format0f(FloatOfInt(total_principal)),
         principal |-> Format0f(FloatOfInt(principal)),
         interest  |-> Format0f(interest),
         rate      |-> Format2f(FMul(interest_rate, FloatOfInt(BFromNat(100)))),
         tax       |-> Format0f(tax),
         final     |-> Format0f(final_amount)]

\* The value returned: a record of the figures printed, or a message.  The
\* handler for (IndexError, ValueError) encloses the whole body, the conversion
\* of the rate included.  With any other product_type no branch returns and the
\* function returns None.
calculate_final_amount(product_name, amount_str, recommendation_text, product_type) ==
    LET parsed == parse_investment_string(amount_str)
        match  == Search(product_name, recommendation_text)
    IN  IF parsed.exc # "none" THEN AmountMessage
        ELSE IF ~match.found THEN RateNotFoundMessage(product_name)
        ELSE IF ~IsFloatLiteral(match.group) THEN AmountMessage
        ELSE LET interest_rate == FDivInt(FloatOfStr(match.group), 100)
             IN  IF product_type = "deposit"
                 THEN DepositResult(parsed.value, interest_rate)
                 ELSE IF product_type = "savings"
                 THEN SavingsResult(amount_str, parsed.value, interest_rate)
                 ELSE [kind |-> "none"]

(***************************************************************************)
(* State                                                                   *)
(*                                                                         *)
(* st.session_state: messages, stage, user_profile, product_type and       *)
(* recommendation_text.  clicked records the button the user pressed.      *)
(* call holds the arguments of the function invoked (in the session, by    *)
(* the latest run of the script), ret what it returned, pc whether a       *)
(* function called on its own has returned.                                *)
(***************************************************************************)

VARIABLES messages, stage, user_profile, product_type, recommendation_text,
          clicked, call, ret, pc

vars == <<messages, stage, user_profile, product_type, recommendation_text,
          clicked, call, ret, pc>>

session == <<messages, stage, user_profile, product_type, recommendation_text, clicked>>

\* All sequences over S of length at most n.
RECURSIVE SeqsUpTo(_, _)
SeqsUpTo(S, n) ==
    IF n = 0 THEN {<< >>}
    ELSE LET shorter == SeqsUpTo(S, n - 1)
         IN  shorter \cup {Append(t, c) : t \in {u \in shorter : Len(u) = n - 1}, c \in S}

\* The concatenation of a sequence of texts.
RECURSIVE Flatten(_)
Flatten(parts) == IF parts = << >> THEN << >> ELSE Head(parts) \o Flatten(Tail(parts))

NoCall == [fn |-> "none"]

NoReturn == [kind |-> "pending"]

AssistantSays(content) == [role |-> "assistant", content |-> content]

UserSays(text) == [role |-> "user", content |-> [kind |-> "text", text |-> text]]

Greeting == AssistantSays([kind |-> "greeting"])

\* The session after the first run of the script: every key initialised, the
\* greeting appended, the stage "start".
SessionInit ==
    /\ messages = <<Greeting>>
    /\ stage = "start"
    /\ user_profile = << >>
    /\ product_type = "None"
    /\ recommendation_text = << >>
    /\ clicked = "none"

(***************************************************************************)
(* parse_investment_string called on its own                               *)
(***************************************************************************)

\* The longest amount text drawn from AmountAlphabet.
MaxLen == 4

AmountAlphabet == {"2", "3", ".", ",", "eok", "man", "x"}

\* "500man won", "1eok won", "1,200,000" and the empty text.
ExampleAmounts ==
    {<<"5", "0", "0", "man", "won">>, <<"1", "eok", "won">>,
     <<"1", ",", "2", "0", "0", ",", "0", "0", "0">>, << >>}

AmountTexts == SeqsUpTo(AmountAlphabet, MaxLen) \cup ExampleAmounts

InitParse ==
    /\ SessionInit
    /\ call \in {[fn |-> "parse", text |-> t] : t \in AmountTexts}
    /\ ret = NoReturn
    /\ pc = "call"

Parse ==
    /\ pc = "call"
    /\ call.fn = "parse"
    /\ ret' = parse_investment_string(call.text)
    /\ pc' = "done"
    /\ UNCHANGED <<session, call>>

NextParse == Parse

SpecParse == InitParse /\ [][NextParse]_vars

(***************************************************************************)
(* calculate_final_amount called on its own                                *)
(***************************************************************************)

ProductTypes == {"deposit", "savings"}

CalcCall(product_name, amount_str, text, type) ==
    [fn |-> "calc", product_name |-> product_name, amount_str |-> amount_str,
     recommendation_text |-> text, product_type |-> type]

Calculate ==
    /\ pc = "call"
    /\ call.fn = "calc"
    /\ ret' = calculate_final_amount(call.product_name, call.amount_str,
                                     call.recommendation_text, call.product_type)
    /\ pc' = "done"
    /\ UNCHANGED <<session, call>>

\* Principals and rates: the recommendation quotes one rate for product A.
MaxAmountDigits == 2

MaxRateLen == 3

FormulaAmounts ==
    {d \o u : d \in SeqsUpTo({"1", "5", "0"}, MaxAmountDigits) \ {<< >>},
              u \in {<< >>, <<"man">>, <<"eok">>}}
    \cup {<<"1", "0", "0", "0", "man">>, <<"1", "0", "0", "man">>}

RateTokens == (SeqsUpTo({"3", "5", "."}, MaxRateLen) \ {<< >>}) \cup {<<"3", ".", "0">>}

InitFormula ==
    /\ SessionInit
    /\ call \in {CalcCall(<<"A">>, a, <<"A", " ", "yeon", " ">> \o r \o <<"%">>, t) :
                    a \in FormulaAmounts, r \in RateTokens, t \in ProductTypes}
    /\ ret = NoReturn
    /\ pc = "call"

NextFormula == Calculate

SpecFormula == InitFormula /\ [][NextFormula]_vars

\* Recommendation texts: up to MaxSegments pieces, each a product name, a rate
\* figure (3%, 2.5% with blanks, or one whose number is malformed) or a line
\* break.
MaxSegments == 4

ProductNames == {<<"A">>, <<"B">>}

Segments ==
    ProductNames \cup
    {<<"yeon", "3", "%">>, <<"yeon", " ", "2", ".", "5", " ", "%">>,
     <<"yeon", "3", ".", ".", "%">>, <<"\n">>}

RecommendationTexts == {Flatten(parts) : parts \in SeqsUpTo(Segments, MaxSegments)}

RateAmounts == {<<"5", "man">>, <<"x">>}

InitRate ==
    /\ SessionInit
    /\ call \in {CalcCall(n, a, text, t) : n \in ProductNames, a \in RateAmounts,
                                           text \in RecommendationTexts, t \in ProductTypes}
    /\ ret = NoReturn
    /\ pc = "call"

NextRate == Calculate

SpecRate == InitRate /\ [][NextRate]_vars

(***************************************************************************)
(* The dialogue: one action per run of the script that changes the session *)
(***************************************************************************)

\* The most user messages one session receives.
MaxTurns == 5

\* What the user may type: "A, 5man", "A,1,200", "B, x" and "{".
UserInputs ==
    {<<"A", ",", " ", "5", "man">>, <<"A", ",", "1", ",", "2", "0", "0">>,
     <<"B", ",", " ", "x">>, <<"{">>}

\* The number of messages of the user in the history.
UserTurns == Cardinality({i \in 1..Len(messages) : messages[i].role = "user"})

\* What response.text may be.
GeneratedTexts == {<<"A", " ", "yeon", " ", "3", "%">>, <<"B", "x">>}

\* get_products_from_api: the strings it may return.  Every exception of the
\* request is caught and reported in a string holding the word "oryu" (error);
\* an empty list is reported in one holding "eopseumnida" (there is none).
get_products_from_api(type) ==
    IF type \notin ProductTypes THEN {<<"wrong", "type">>}
    ELSE {<<"json">>, <<type, "eopseumnida">>, <<"api", "oryu">>}

\* Whether final_prompt_template.format(...) raises: create_prompt has put the
\* user's answers into the template as they are, so a brace in an answer is read
\* as the start or the end of a replacement field, and format raises ValueError
\* (a doubled brace, which format reads as an escape, is in no text of the
\* model).
FormatRaises(profile) ==
    \E k \in DOMAIN profile : Contains(profile[k], "{") \/ Contains(profile[k], "}")

\* dict assignment: profile[key] = value.
SetItem(profile, key, value) ==
    [k \in DOMAIN profile \cup {key} |-> IF k = key THEN value ELSE profile[k]]

\* The buttons rendered by every run of the script.
ButtonsAlwaysShown == TRUE

\* The buttons are rendered, and can be clicked, only by the branch of the stage
\* "start".
ButtonsShown == stage = "start"

\* A click on one of the two buttons: the product type is set and st.rerun()
\* starts the script again.
ClickButton(type) ==
    /\ pc = "session"
    /\ ButtonsShown
    /\ product_type' = type
    /\ stage' = "ask_risk"
    /\ clicked' = type
    /\ call' = NoCall
    /\ UNCHANGED <<messages, user_profile, recommendation_text, ret, pc>>

\* The run that st.rerun() starts: the branch of the stage "ask_risk".  The
\* chat input holds nothing in this run.
RunAskRisk ==
    /\ pc = "session"
    /\ stage = "ask_risk"
    /\ messages' = <<AssistantSays([kind |-> "ask_risk", type |-> product_type])>>
    /\ stage' = "ask_goal"
    /\ call' = NoCall
    /\ UNCHANGED <<user_profile, product_type, recommendation_text, clicked, ret, pc>>

\* The reply to a message and the stage that follows, for the stages whose
\* branch calls no service.
Reply(kind) == AssistantSays([kind |-> kind])

\* The text of the latest reply, when it is a recommendation.
LatestReplyText ==
    LET last == messages[Len(messages)].content
    IN  IF last.kind = "recommendation" THEN last.text ELSE << >>

\* The text the branch hands to the calculator: the one stored in the session.
StoredRecommendation == recommendation_text

\* The call the branch of the stage "calculate_interest" makes, if it makes one:
\* unpacking user_input.split(',') into two names raises ValueError unless there
\* are exactly two parts.
CalculationCall(user_input) ==
    LET parts == Split(user_input, ",")
    IN  IF Len(parts) # 2 THEN NoCall
        ELSE CalcCall(Strip(parts[1]), Strip(parts[2]), StoredRecommendation, product_type)

\* The reply of the branch to user_input.
CalculationReply(user_input) ==
    LET c == CalculationCall(user_input)
    IN  IF c = NoCall THEN [kind |-> "format_error"]
        ELSE calculate_final_amount(c.product_name, c.amount_str,
                                    c.recommendation_text, c.product_type)

\* The run of the script for a message typed into the chat input.
UserMessage(user_input) ==
    /\ pc = "session"
    /\ stage # "ask_risk"
    /\ UserTurns < MaxTurns
    /\ LET said == Append(messages, UserSays(user_input))
       IN  \/ /\ stage = "ask_goal"
              /\ user_profile' = SetItem(user_profile, "risk", user_input)
              /\ stage' = "ask_period"
              /\ messages' = Append(said, Reply("ask_goal"))
              /\ call' = NoCall
              /\ UNCHANGED recommendation_text
           \/ /\ stage = "ask_period"
              /\ user_profile' = SetItem(user_profile, "goal", user_input)
              /\ stage' = "generate_recommendation"
              /\ messages' = Append(said, Reply("ask_period"))
              /\ call' = NoCall
              /\ UNCHANGED recommendation_text
           \/ /\ stage = "generate_recommendation"
              /\ user_profile' = SetItem(user_profile, "period", user_input)
              /\ call' = NoCall
              /\ \E product_list_str \in get_products_from_api(product_type) :
                    IF ~Contains(product_list_str, "oryu")
                       /\ ~Contains(product_list_str, "eopseumnida")
                    THEN \/ \* format() raises, or the generation service does:
                            \* the exception ends the run.
                            /\ messages' = said
                            /\ UNCHANGED <<stage, recommendation_text>>
                         \/ /\ ~FormatRaises(user_profile')
                            /\ \E text \in GeneratedTexts :
                                  /\ recommendation_text' = text
                                  /\ messages' = Append(said,
                                        AssistantSays([kind |-> "recommendation", text |-> text]))
                            /\ stage' = "calculate_interest"
                    ELSE /\ messages' = Append(said,
                              AssistantSays([kind |-> "no_products", text |-> product_list_str]))
                         /\ stage' = "calculate_interest"
                         /\ UNCHANGED recommendation_text
           \/ /\ stage = "calculate_interest"
              /\ messages' = Append(said, AssistantSays(CalculationReply(user_input)))
              /\ call' = CalculationCall(user_input)
              /\ UNCHANGED <<stage, user_profile, recommendation_text>>
           \/ /\ stage = "start"
              /\ messages' = Append(said, Reply("refresh"))
              /\ call' = NoCall
              /\ UNCHANGED <<stage, user_profile, recommendation_text>>
    /\ UNCHANGED <<product_type, clicked, ret, pc>>

InitChat ==
    /\ SessionInit
    /\ call = NoCall
    /\ ret = NoReturn
    /\ pc = "session"

NextChat ==
    \/ \E type \in ProductTypes : ClickButton(type)
    \/ RunAskRisk
    \/ \E user_input \in UserInputs : UserMessage(user_input)

SpecChat == InitChat /\ [][NextChat]_vars

(***************************************************************************)
(* Properties of parse_investment_string (SpecParse)                       *)
(***************************************************************************)

Parsed == pc = "done" /\ call.fn = "parse"

HasDigit(text) == \E i \in 1..Len(text) : text[i] \in Digits

\* The multiplier the unit markers of a text call for.
UnitMultiplier(text) ==
    BMul(IF Contains(text, "eok") THEN BFromNat(HundredMillion) ELSE BOne,
         IF Contains(text, "man") THEN BFromNat(TenThousand) ELSE BOne)

\* The integer part of (first numeric token, commas removed) times the
\* multiplier, in exact arithmetic.
ExactAmount(text) ==
    LET tok == FirstNumericToken(RemoveCommas(text))
    IN  BDivSmall(BMul(DigitsValue(tok, << >>), UnitMultiplier(text)),
                  10 ^ FractionDigits(tok)).q

\* C4: for every text whose first numeric token is a number, the parser returns
\* the integer part of that number times 100,000,000 if "eok" occurs and times
\* 10,000 if "man" occurs.
C4_TruncatedProduct ==
    (Parsed /\ IsFloatLiteral(FirstNumericToken(RemoveCommas(call.text))))
        => ret = Returned(ExactAmount(call.text))

\* C5: the parser fails only when the text has no numeric token: every text
\* that contains a digit parses to an integer, and a text without a digit fails.
C5_FailsOnlyWithoutDigit ==
    Parsed => (ret.exc = "none" <=> HasDigit(call.text))

(***************************************************************************)
(* Properties of calculate_final_amount (SpecFormula, SpecRate)            *)
(***************************************************************************)

Calculated == pc = "done" /\ call.fn = "calc"

IsBreakdown(r) == r.kind \in ProductTypes

\* Whether the whole number shown is num / den rounded to the nearest whole
\* number: 2 * |shown * den - num| <= den.
IsNearest(shown, num, den) ==
    LET a == BMul(shown, den)
        diff == IF BCmp(a, num) >= 0 THEN BSub(a, num) ELSE BSub(num, a)
    IN  BCmp(BMulSmall(diff, 2), den) <= 0

\* The figures the formulas give for principal p and a rate of n / 10^d percent,
\* each a numerator over the common denominator 12 * 10^(d + 5).
FormulaDen(d) == BMulSmall(BPow10(d + 5), Months)

DepositFormula(p, n, d) ==
    LET interest == BMulSmall(BMulSmall(BMul(p, n), 1000), Months)
        tax      == BMulSmall(BMulSmall(BMul(p, n), TaxPerMille), Months)
    IN  [interest |-> interest, tax |-> tax,
         net |-> BSub(BAdd(BMul(p, FormulaDen(d)), interest), tax)]

SavingsFormula(p, n, d) ==
    LET interest == BMulSmall(BMulSmall(BMul(p, n), 1000), 78)
        tax      == BMulSmall(BMulSmall(BMul(p, n), TaxPerMille), 78)
        total    == BMulSmall(p, 12)
    IN  [total |-> total, interest |-> interest, tax |-> tax,
         net |-> BSub(BAdd(BMul(total, FormulaDen(d)), interest), tax)]

\* The rate quoted in a text "A yeon <rate>%" of SpecFormula.
QuotedRate(text) == SubSeq(text, 5, Len(text) - 1)

FollowsFormula(r, p, n, d) ==
    /\ IF r.kind = "deposit"
       THEN LET f == DepositFormula(p, n, d)
            IN  /\ r.principal = p
                /\ IsNearest(r.interest, f.interest, FormulaDen(d))
                /\ IsNearest(r.tax, f.tax, FormulaDen(d))
                /\ IsNearest(r.final, f.net, FormulaDen(d))
       ELSE LET f == SavingsFormula(p, n, d)
            IN  /\ r.principal = p
                /\ r.total = f.total
                /\ IsNearest(r.interest, f.interest, FormulaDen(d))
                /\ IsNearest(r.tax, f.tax, FormulaDen(d))
                /\ IsNearest(r.final, f.net, FormulaDen(d))

DepositExample == CalcCall(<<"A">>, <<"1", "0", "0", "0", "man">>,
                           <<"A", " ", "yeon", " ", "3", ".", "5", "%">>, "deposit")

SavingsExample == CalcCall(<<"A">>, <<"1", "0", "0", "man">>,
                           <<"A", " ", "yeon", " ", "3", ".", "0", "%">>, "savings")

\* C1: whenever the amount parses and the quoted rate is a number, the call
\* returns the breakdown of the session's category, and each figure printed is
\* the formula's value rounded to the whole won: deposit interest p*r/100, tax
\* interest*0.154, net p + interest - tax; savings total 12p, interest
\* p*r/100*78/12, tax interest*0.154, net total + interest - tax.  Deposit
\* 10,000,000 at 3.5% prints 350,000 / 53,900 / 10,296,100.
C1_FiguresFollowFormula ==
    Calculated =>
        LET p == parse_investment_string(call.amount_str)
            r == QuotedRate(call.recommendation_text)
        IN  /\ (p.exc = "none" /\ IsFloatLiteral(r)) =>
                  /\ ret.kind = call.product_type
                  /\ FollowsFormula(ret, p.value, DigitsValue(r, << >>), FractionDigits(r))
            /\ call = DepositExample =>
                  /\ ret.interest = BFromNat(350000)
                  /\ ret.tax = BFromNat(53900)
                  /\ ret.final = BFromNat(10296100)

\* Savings of 1,000,000 a month at 3.0% print 12,000,000 / 195,000 / 30,030 /
\* 12,164,970.
C1_SavingsExampleReached ==
    /\ Calculated
    /\ call = SavingsExample
    /\ ret.total = BFromNat(12000000)
    /\ ret.interest = BFromNat(195000)
    /\ ret.tax = BFromNat(30030)
    /\ ret.final = BFromNat(12164970)

\* The rate a breakdown echoes ("yeon X.XX%"), in hundredths of a percent, for a
\* quoted number of at most two decimals.
Hundredths(tok) == BMulSmall(DigitsValue(tok, << >>), 10 ^ (2 - FractionDigits(tok)))

Occurrences(text, name) == {i \in 1..(Len(text) + 1) : OccursAt(text, name, i)}

AmountParses == parse_investment_string(call.amount_str).exc = "none"

\* The figures after index from, whatever lies in between.
FiguresAfter(text, from) == {j \in from..Len(text) : FigureAt(text, j)}

\* C2 as stated: the rate used is the first figure that follows the first
\* occurrence of the product name, however much text, line breaks included,
\* lies between the two.
C2_FirstFigureAfterFirstOccurrence ==
    LET text == call.recommendation_text
        name == call.product_name
    IN  (/\ Calculated
         /\ AmountParses
         /\ Occurrences(text, name) # {}
         /\ FiguresAfter(text, MinOf(Occurrences(text, name)) + Len(name)) # {})
        => LET tok == FigureToken(text,
                        MinOf(FiguresAfter(text, MinOf(Occurrences(text, name)) + Len(name))))
           IN  IsFloatLiteral(tok) => (IsBreakdown(ret) /\ ret.rate = Hundredths(tok))

\* The figures after index from with no line break between from and the figure.
FiguresOnLine(text, from) ==
    {j \in FiguresAfter(text, from) : \A k \in from..(j - 1) : text[k] # "\n"}

\* The occurrences of the name that a figure follows on the same line.
OccurrencesWithFigure(text, name) ==
    {i \in Occurrences(text, name) : FiguresOnLine(text, i + Len(name)) # {}}

\* C2 as amended: the rate used is the first figure that follows, with no line
\* break in between, the earliest occurrence of the product name that such a
\* figure follows; when the amount parses and that figure's number is valid the
\* breakdown is returned with it, and when no occurrence has such a figure no
\* breakdown is returned.
C2_FirstFigureOnTheLine ==
    LET text == call.recommendation_text
        name == call.product_name
        good == OccurrencesWithFigure(text, name)
    IN  (Calculated /\ AmountParses) =>
           IF good = {} THEN ~IsBreakdown(ret)
           ELSE LET tok == FigureToken(text, MinOf(FiguresOnLine(text, MinOf(good) + Len(name))))
                IN  /\ IsBreakdown(ret) => ret.rate = Hundredths(tok)
                    /\ IsFloatLiteral(tok) => IsBreakdown(ret)

\* A first occurrence cut off from the figures by a line break, and a later
\* occurrence whose figure is used.
C2_LaterOccurrenceUsed ==
    /\ Calculated
    /\ call.product_name = <<"A">>
    /\ call.recommendation_text = <<"A", "\n", "A", "yeon", " ", "2", ".", "5", " ", "%">>
    /\ IsBreakdown(ret)
    /\ ret.rate = BFromNat(250)

\* Whether the figure at j is quoted for the product name: the name occurs
\* before the figure, and no other product's name occurs between that occurrence
\* and the figure.
QuotedFor(text, name, j) ==
    /\ FigureAt(text, j)
    /\ \E i \in Occurrences(text, name) :
          /\ i + Len(name) <= j
          /\ \A other \in ProductNames \ {name} :
                \A k \in Occurrences(text, other) : ~(i < k /\ k < j)

FiguresQuotedFor(text, name) == {j \in 1..Len(text) : QuotedFor(text, name, j)}

\* C3: when the amount parses and the text quotes no figure for the named
\* product, the rate-not-found message is returned; and the rate of a breakdown
\* is one quoted for the named product, never only for another product.
C3_RateOfNamedProduct ==
    LET text == call.recommendation_text
        name == call.product_name
    IN  (Calculated /\ AmountParses) =>
           /\ FiguresQuotedFor(text, name) = {} => ret = RateNotFoundMessage(name)
           /\ IsBreakdown(ret) =>
                 \E j \in FiguresQuotedFor(text, name) :
                    ret.rate = Hundredths(FigureToken(text, j))

\* C6: the call returns a breakdown or a message, and the message names the
\* fault: the amount message exactly when the amount does not parse, the
\* rate-not-found message when it parses and the pattern matches nothing, the
\* calculation-error message when the matched rate is no valid number.
C6_MessageMatchesFault ==
    Calculated =>
        /\ ret.kind # "none"
        /\ ret = AmountMessage <=> ~AmountParses
        /\ (AmountParses /\ ~Search(call.product_name, call.recommendation_text).found)
              => ret = RateNotFoundMessage(call.product_name)
        /\ (/\ AmountParses
            /\ Search(call.product_name, call.recommendation_text).found
            /\ ~IsFloatLiteral(Search(call.product_name, call.recommendation_text).group))
              => ret.kind = "calc_error"

(***************************************************************************)
(* Properties of the dialogue (SpecChat)                                   *)
(***************************************************************************)

\* A step in which the script handles a message typed by the user.
MessageStep ==
    /\ Len(messages') > Len(messages)
    /\ messages'[Len(messages) + 1].role = "user"

\* The message handled by a MessageStep.
TypedText == messages'[Len(messages) + 1].content.text

\* The reply given by a MessageStep, if it gave one.
Replied == Len(messages') = Len(messages) + 2

GivenReply == messages'[Len(messages) + 2].content

\* C7: the product type is assigned only while the stage is "start", and
\* whenever the calculator is called the type it is given is the one the user
\* picked, deposit or savings.
C7_CategoryFixed ==
    /\ [][product_type' # product_type => stage = "start"]_vars
    /\ [](call.fn = "calc" =>
            /\ stage = "calculate_interest"
            /\ call.product_type \in ProductTypes
            /\ call.product_type = clicked)

C7_CalculatorCalled ==
    /\ call.fn = "calc"
    /\ call.product_type = "savings"
    /\ clicked = "savings"

\* The index of the reply that opened the calculate stage, 0 before it.
CalculateStageOpened ==
    LET opened == {i \in 1..Len(messages) :
                      messages[i].content.kind \in {"recommendation", "no_products"}}
    IN  IF opened = {} THEN 0 ELSE MinOf(opened)

\* The indices of the calculation requests in the history.
Requests ==
    IF CalculateStageOpened = 0 THEN {}
    ELSE {i \in (CalculateStageOpened + 1)..(Len(messages) - 1) : messages[i].role = "user"}

\* C8: a message handled in the calculate stage leaves the stage, the product
\* type, the stored recommendation and the profile as they are, only appending
\* to the history; and the same request sent twice gets the same reply.
C8_CalculationIsPure ==
    /\ [][stage = "calculate_interest" =>
            /\ stage' = stage
            /\ product_type' = product_type
            /\ recommendation_text' = recommendation_text
            /\ user_profile' = user_profile
            /\ Len(messages') >= Len(messages)
            /\ SubSeq(messages', 1, Len(messages)) = messages]_vars
    /\ [](\A i, j \in Requests :
            messages[i].content = messages[j].content
               => messages[i + 1].content = messages[j + 1].content)

\* The same request sent twice, the two replies a breakdown.
C8_SameRequestTwice ==
    \E i, j \in Requests :
        /\ i < j
        /\ messages[i].content = messages[j].content
        /\ IsBreakdown(messages[i + 1].content)
        /\ IsBreakdown(messages[j + 1].content)

\* C9: the stages follow one another in order, each message advancing the
\* dialogue by one stage and being stored as risk, goal and period in turn; the
\* third message always brings the calculate stage, which is never left.
C9_ForwardOnly ==
    [][/\ (stage = "ask_goal" /\ MessageStep) =>
             (stage' = "ask_period" /\ user_profile'["risk"] = TypedText)
       /\ (stage = "ask_period" /\ MessageStep) =>
             (stage' = "generate_recommendation" /\ user_profile'["goal"] = TypedText)
       /\ (stage = "generate_recommendation" /\ MessageStep) =>
             (stage' = "calculate_interest" /\ user_profile'["period"] = TypedText)
       /\ stage = "calculate_interest" => stage' = "calculate_interest"]_vars

\* Whether a message has the shape "<name>, <amount>": a comma, and after the
\* first comma an amount the parser accepts.
FirstComma(text) == MinOf({i \in 1..Len(text) : text[i] = ","})

NameOf(text) == Strip(SubSeq(text, 1, FirstComma(text) - 1))

AmountOf(text) == Strip(SubSeq(text, FirstComma(text) + 1, Len(text)))

HasRequestShape(text) ==
    /\ Contains(text, ",")
    /\ parse_investment_string(AmountOf(text)).exc = "none"

\* C10: in the calculate stage every message of the shape "<name>, <amount>",
\* thousands separators in the amount included, is split into name and amount
\* and handed to the calculator; the input-format error answers only a message
\* that has not that shape.
C10_EveryRequestCalculated ==
    [][(stage = "calculate_interest" /\ MessageStep /\ HasRequestShape(TypedText)) =>
          /\ call' = CalcCall(NameOf(TypedText), AmountOf(TypedText),
                              recommendation_text, product_type)
          /\ Replied
          /\ GivenReply.kind # "format_error"]_vars

====
